---- MODULE Spec2Model ----
(***************************************************************************)
(* Model of image_gen.py: the synthetic sessile-droplet generator.         *)
(*                                                                         *)
(* Numbers.  The code computes in floating point; the model computes in    *)
(* fixed point.  Lengths (cy, distances, radii) are integers in units of   *)
(* 1/Q pixel; fractions (cosines, mask, gradient, uniform draws, severity) *)
(* are integers in thousandths; intensities are in thousandths of a grey   *)
(* level until the final cast to uint8.  Angles are multiples of 30        *)
(* degrees, for which the cosine table below is the cosine rounded to      *)
(* three decimals.                                                         *)
(*                                                                         *)
(* Arrays.  The code's arrays have IMG_H x IMG_W entries.  The model keeps *)
(* the array's shape and the entries at the pixels of Window (the Core     *)
(* pixels and their 3x3 neighbours); the returned image holds the entries  *)
(* at the Core pixels.                                                     *)
(*                                                                         *)
(* Random numbers.  np.random is one process-wide generator.  Its state is *)
(* modelled as [key, pos]: the seed (or the start-up entropy) it was last  *)
(* seeded with and the number of values drawn since; the value drawn is    *)
(* Out(key, pos), a fixed mixing function.                                 *)
(***************************************************************************)
EXTENDS Integers, Sequences, FiniteSets, TLC

\* ------------------------------------------------------------ constants
IMG_W == 800
IMG_H == 900
BACKGROUND == 240
DROPLET_COLOR == 0
RADIUS == 240

\* ------------------------------------------------------------ bounds
\* Fixed-point units per pixel.
Q == 10
\* Calls started in one behaviour.
MaxCalls == 3
\* Calls started in one behaviour of the concurrent specification.
MaxConcCalls == 2
\* Times a running call is preempted by another thread in one behaviour of
\* the concurrent specification.
MaxSwitches == 2

Threads == {1, 2}
\* The thread of the CLI's loop.
MainThread == CHOOSE t \in Threads : \A u \in Threads : t <= u
\* Contact angles (degrees) the callers pass: a negative one, two ordinary
\* ones (90 is Scenario A's) and one above 180.
Angles == {-30, 60, 90, 210}
\* Seeds the callers pass: 42 + id for id = -43, 0, 1.
Seeds == {-1, 42, 43}
\* Severities (thousandths) of direct calls of add_droplet_irregularities.
Levels == {0, 9, 10, 400}
\* Centres (pixels) of direct calls of add_droplet_irregularities.
Centres == {<<400, 675>>}
\* Contact angles of the calls that run concurrently.
ConcAngles == {60}
\* States the generator can be in when the process starts (OS entropy).
EntropyKeys == {1001, 1002}

\* ------------------------------------------------------------ arithmetic
Abs(a) == IF a < 0 THEN -a ELSE a

Clip(v, lo, hi) == IF v < lo THEN lo ELSE IF v > hi THEN hi ELSE v

RECURSIVE SqrtSearch(_, _, _)
SqrtSearch(n, lo, hi) ==
    IF lo >= hi THEN lo
    ELSE LET mid == (lo + hi + 1) \div 2
         IN  IF mid * mid <= n THEN SqrtSearch(n, mid, hi)
             ELSE SqrtSearch(n, lo, mid - 1)

\* np.sqrt, rounded down to the fixed-point unit.
ISqrt(n) == SqrtSearch(n, 0, 46340)

\* np.cos of an angle in degrees (a multiple of 30), in thousandths.
Cos1000(deg) ==
    LET d == deg % 360
        f == IF d > 180 THEN 360 - d ELSE d
    IN  CASE f = 0   -> 1000
          [] f = 30  -> 866
          [] f = 60  -> 500
          [] f = 90  -> 0
          [] f = 120 -> -500
          [] f = 150 -> -866
          [] f = 180 -> -1000

\* np.sin of an angle in degrees (a multiple of 30), in thousandths.
Sin1000(deg) == Cos1000(deg - 90)

\* np.arctan2(dy, dx) in degrees, rounded to the nearest multiple of 30.
Atan2Deg(dy, dx) ==
    LET ay == Abs(dy)
        ax == Abs(dx)
        a  == IF ay = 0 THEN 0
              ELSE IF ay * 1000 < 268 * ax THEN 0
              ELSE IF ay < ax THEN 30
              ELSE IF ay * 1000 < 3732 * ax THEN 60
              ELSE 90
    IN  IF dx >= 0 THEN (IF dy >= 0 THEN a ELSE -a)
        ELSE (IF dy >= 0 THEN 180 - a ELSE a - 180)

\* ------------------------------------------------------------ pixels
\* int(IMG_H * 0.75)
BaselineOf(h) == (h * 3) \div 4

\* cv2's BORDER_REFLECT_101 index into 0..n-1.
Refl(i, n) == IF i < 0 THEN -i ELSE IF i > n - 1 THEN 2 * (n - 1) - i ELSE i

CoreRows ==
    LET b == BaselineOf(IMG_H)
    IN  {0, 600, b - 3, b - 2, b - 1, b, b + 1, b + 2, b + 3, IMG_H - 1}
CoreCols == {0, IMG_W \div 2, IMG_W - 1}
\* Pixels are <<row, column>>.
Core == CoreRows \X CoreCols
Offsets == {-1, 0, 1}
Window ==
    {<<Refl(p[1] + dy, IMG_H), Refl(p[2] + dx, IMG_W)>> :
        p \in Core, dy \in Offsets, dx \in Offsets}

\* ------------------------------------------------------------ np.random
\* The value the generator yields at position pos after seeding with key.
Out(key, pos) ==
    LET p == pos % 997
    IN  (key * 131 + p * 37 + p * p * 11 + key * p * 3 + 17) % 1000

\* np.random.seed rejects a seed outside [0, 2**32 - 1] with ValueError.
SeedOk(seed) == seed >= 0

SeedNoReset(rng, seed) == rng
\* np.random.seed(seed): the state becomes that of the seed, whatever it was.
SeedRng(rng, seed) == [key |-> seed, pos |-> 0]

Advance(rng, n) == [rng EXCEPT !.pos = @ + n]

\* np.random.randint(lo, hi): an integer in lo..hi-1.
RandInt(rng, lo, hi) == lo + (Out(rng.key, rng.pos) % (hi - lo))

\* np.random.rand(): a real in [0, 1), in thousandths.
Rand(rng) == Out(rng.key, rng.pos)

\* One N(0, 6) sample (thousandths of a grey level) per value of the stream.
NoiseTab == <<-24000, -15000, -9000, -6000, -4000, -2000, -1000, 0,
              0, 1000, 2000, 4000, 6000, 9000, 15000, 24000>>

\* Entry <<y, x>> of np.random.normal(0, 6, shape): the array is filled in
\* row-major order from the generator's current position.
NormalAt(rng, shape, p) ==
    NoiseTab[(Out(rng.key, rng.pos + p[1] * shape[2] + p[2]) % 16) + 1]

\* ------------------------------------------------------------ arrays
\* An ndarray: its shape, its dtype and its entries at the pixels kept.
NoArr == [shape |-> <<0, 0>>, dtype |-> "none", px |-> [p \in {} |-> 0]]

\* YY, XX = np.meshgrid(np.arange(IMG_H), np.arange(IMG_W), indexing="ij")
MeshGrid ==
    [YY |-> [shape |-> <<IMG_H, IMG_W>>, dtype |-> "float32",
             px |-> [p \in Window |-> p[1]]],
     XX |-> [shape |-> <<IMG_H, IMG_W>>, dtype |-> "float32",
             px |-> [p \in Window |-> p[2]]]]

\* np.ones((IMG_H, IMG_W), dtype=np.float32) * BACKGROUND
OnesShape == <<IMG_H, IMG_W>>

BackgroundImage ==
    [shape |-> OnesShape, dtype |-> "float32",
     px |-> [p \in Window |-> BACKGROUND * 1000]]

\* ------------------------------------------------------------ geometry
ComputeGeometrySin(theta_deg) ==
    LET baseline_y == BaselineOf(IMG_H)
        droplet_height == (RADIUS * Q * (1000 - Sin1000(theta_deg))) \div 1000
    IN  [baseline_y |-> baseline_y,
         cx |-> IMG_W \div 2,
         cy |-> baseline_y * Q + (RADIUS * Q - droplet_height)]

\* baseline_y and cx in pixels, cy in 1/Q pixel.
ComputeGeometry(theta_deg) ==
    LET baseline_y == BaselineOf(IMG_H)
        droplet_height == (RADIUS * Q * (1000 - Cos1000(theta_deg))) \div 1000
    IN  [baseline_y |-> baseline_y,
         cx |-> IMG_W \div 2,
         cy |-> baseline_y * Q + (RADIUS * Q - droplet_height)]

\* ------------------------------------------------------------ add_droplet_irregularities
LowSeverityNever(level) == level < 0
\* level < 0.01
LowSeverity(level) == level < 10

\* np.sqrt((xx - cx) ** 2 + (yy - cy) ** 2) at pixel p, in 1/Q pixel.
EuclidAt(xx, yy, cx, cy, p) ==
    LET dx == xx.px[p] * Q - cx * Q
        dy == yy.px[p] * Q - cy
    IN  ISqrt(dx * dx + dy * dy)

\* np.arctan2(yy - cy, xx - cx) at pixel p, in degrees.
AngleAt(xx, yy, cx, cy, p) == Atan2Deg(yy.px[p] * Q - cy, xx.px[p] * Q - cx * Q)

\* amp = np.random.rand() * level * R * 0.02, in thousandths of a pixel.
AmpOf(u, level, R) == (((u * level) \div 1000) * R * 20) \div 1000

\* phase = np.random.rand() * 2 * np.pi, in degrees (a multiple of 30).
PhaseOf(u) == ((u * 12) \div 1000) * 30

\* The sum of amp * np.sin(freq * angle + phase) over the terms, at angle phi.
RECURSIVE DistortionOf(_, _)
DistortionOf(terms, phi) ==
    IF terms = <<>> THEN 0
    ELSE LET t == Head(terms)
         IN  ((t.amp * Sin1000(t.freq * phi + t.phase)) \div 1000)
               + DistortionOf(Tail(terms), phi)

\* dist / R_distorted * R at pixel p, in 1/Q pixel.
DistortedAt(xx, yy, cx, cy, R, terms, p) ==
    LET R_distorted == R * 1000 + DistortionOf(terms, AngleAt(xx, yy, cx, cy, p))
        dist == EuclidAt(xx, yy, cx, cy, p)
    IN  (dist * 1000) \div (R_distorted \div R)

EuclidField(xx, yy, cx, cy) ==
    [shape |-> xx.shape, dtype |-> xx.dtype,
     px |-> [p \in DOMAIN xx.px |-> EuclidAt(xx, yy, cx, cy, p)]]

DistortedField(xx, yy, cx, cy, R, terms) ==
    [shape |-> xx.shape, dtype |-> xx.dtype,
     px |-> [p \in DOMAIN xx.px |-> DistortedAt(xx, yy, cx, cy, R, terms, p)]]

\* ------------------------------------------------------------ compositor
\* np.clip((R - dist) / edge_width + 0.5, 0, 1) with edge_width = 2.0,
\* in thousandths.
MaskAt(R, dist) == Clip((((R * Q - dist) * 1000) \div (2 * Q)) + 500, 0, 1000)

BelowBaselineNever(y, baseline_y) == FALSE
\* YY > baseline_y: where the mask is set to 0.
BelowBaseline(y, baseline_y) == y > baseline_y

\* np.clip(1 - 0.2 * (YY - (cy - R)) / (2 * R), 0.8, 1.0), in thousandths.
GradientAt(y, cy, R) ==
    Clip(1000 - ((200 * (y * Q - (cy - R * Q))) \div (2 * R * Q)), 800, 1000)

\* img * (1 - mask) + droplet * mask
Blend(img, mask, droplet) == (img * (1000 - mask) + droplet * mask) \div 1000

InContactShort(y, baseline_y) == y >= baseline_y - 2 /\ y <= baseline_y
\* (YY >= baseline_y - 2) & (YY <= baseline_y + 1)
InContact(y, baseline_y) == y >= baseline_y - 2 /\ y <= baseline_y + 1

\* Lines 96-112 at pixel p: mask, baseline clipping, gradient, blend and
\* contact line.
CompositeAt(img, dist, yy, g, R, p) ==
    LET y        == yy.px[p]
        mask     == IF BelowBaseline(y, g.baseline_y) THEN 0
                    ELSE MaskAt(R, dist.px[p])
        droplet  == DROPLET_COLOR * GradientAt(y, g.cy, R)
    IN  IF InContact(y, g.baseline_y) THEN 0
        ELSE Blend(img.px[p], mask, droplet)

CompositeImage(img, dist, yy, g, R) ==
    [img EXCEPT !.px = [p \in DOMAIN img.px |-> CompositeAt(img, dist, yy, g, R, p)]]

\* ------------------------------------------------------------ sensor noise
\* img += np.random.normal(0, 6, img.shape)
AddNoise(img, rng) ==
    [img EXCEPT !.px = [p \in DOMAIN img.px |-> img.px[p] + NormalAt(rng, img.shape, p)]]

\* The values one np.random.normal(0, 6, shape) call consumes.
NormalDraws(shape) == shape[1] * shape[2]

\* cv2.GaussianBlur(img, (3, 3), 0) at pixel p: the kernel is
\* [1 2 1; 2 4 2; 1 2 1] / 16, the border is reflected (BORDER_REFLECT_101).
BlurAt(img, p) ==
    LET v(dy, dx) == img.px[<<Refl(p[1] + dy, img.shape[1]),
                              Refl(p[2] + dx, img.shape[2])>>]
                       * (2 - Abs(dy)) * (2 - Abs(dx))
    IN  (v(-1, -1) + v(-1, 0) + v(-1, 1) + v(0, -1) + v(0, 0) + v(0, 1)
           + v(1, -1) + v(1, 0) + v(1, 1)) \div 16

QuantizeNoClip(v) == v \div 1000
\* np.clip(v, 0, 255).astype(np.uint8): the cast truncates.
Quantize(v) == Clip(v, 0, 255000) \div 1000

\* Lines 116-118: blur, clip and cast; the entries kept are the Core pixels.
FinishImage(img) ==
    [shape |-> img.shape, dtype |-> "uint8",
     px |-> [p \in Core |-> Quantize(BlurAt(img, p))]]

\* ------------------------------------------------------------ state
VARIABLES
    rng,      \* the state of the process-wide generator np.random
    grid,     \* the module-level arrays YY and XX
    call,     \* per thread: the frame of the call it is executing
    results,  \* the images generate_single_droplet has returned, with their arguments
    ncalls,   \* calls started
    sched     \* the thread that ran last, and the preemptions so far

vars == <<rng, grid, call, results, ncalls, sched>>

\* level=0.4 at the call of add_droplet_irregularities
GenLevel == 400

\* The statements of generate_single_droplet, in program order.
GenFlowNoiseFirst == <<"seed", "geometry", "noise", "irr", "composite", "finish">>
GenFlow == <<"seed", "geometry", "irr", "composite", "noise", "finish">>

NoGeometry == [baseline_y |-> 0, cx |-> 0, cy |-> 0]

Idle ==
    [pc |-> "idle", kind |-> "none", ip |-> 0, theta |-> 0, seed |-> 0,
     level |-> 0, R |-> 0, g |-> NoGeometry, n |-> 0, terms |-> <<>>,
     freq |-> 0, amp |-> 0, dist |-> NoArr, img |-> NoArr, ret |-> NoArr,
     log |-> <<>>, rng0 |-> [key |-> 0, pos |-> 0]]

Init ==
    /\ rng \in {[key |-> k, pos |-> 0] : k \in EntropyKeys}
    /\ grid = MeshGrid
    /\ call = [t \in Threads |-> Idle]
    /\ results = {}
    /\ ncalls = 0
    /\ sched = [last |-> MainThread, switches |-> 0]

\* The statement of generate_single_droplet thread t is at.
At(t, stmt) ==
    /\ call[t].pc = "stmt"
    /\ call[t].ip <= Len(GenFlow)
    /\ GenFlow[call[t].ip] = stmt

\* The frame after the statement at ip: the next statement.
NextStmt(f) == [f EXCEPT !.ip = @ + 1]

\* ------------------------------------------------------------ scheduling
\* Thread t runs next: a preemption when the thread that ran last is inside
\* a call.
Preempts(t) == sched.last # t /\ call[sched.last].pc # "idle"

Sched(t) ==
    /\ Preempts(t) => sched.switches < MaxSwitches
    /\ sched' = [last |-> t,
                 switches |-> IF Preempts(t) THEN sched.switches + 1
                              ELSE sched.switches]

\* ------------------------------------------------------------ calls
\* A caller (the CLI's loop, one Streamlit session) calls
\* generate_single_droplet(theta_deg, seed) with no other call running.
CallGenerate(t, theta_deg, seed) ==
    /\ t = MainThread
    /\ \A u \in Threads : call[u].pc = "idle"
    /\ ncalls < MaxCalls
    /\ call' = [call EXCEPT ![t] =
                  [Idle EXCEPT !.pc = "stmt", !.kind = "gen", !.ip = 1,
                               !.theta = theta_deg, !.seed = seed, !.rng0 = rng]]
    /\ ncalls' = ncalls + 1
    /\ UNCHANGED <<rng, grid, results>>
    /\ Sched(t)

\* Callers on several threads (Streamlit sessions of one process), each with
\* a seed no running call has.
CallGenerateConc(t, theta_deg, seed) ==
    /\ call[t].pc = "idle"
    /\ \A u \in Threads : u < t => call[u].pc # "idle"
    /\ \A u \in Threads : call[u].pc # "idle" => call[u].seed # seed
    /\ ncalls < MaxConcCalls
    /\ call' = [call EXCEPT ![t] =
                  [Idle EXCEPT !.pc = "stmt", !.kind = "gen", !.ip = 1,
                               !.theta = theta_deg, !.seed = seed, !.rng0 = rng]]
    /\ ncalls' = ncalls + 1
    /\ UNCHANGED <<rng, grid, results>>
    /\ Sched(t)

\* A direct call add_droplet_irregularities(XX, YY, cx, cy, RADIUS, level).
CallIrregularities(t, c, level) ==
    /\ t = MainThread
    /\ \A u \in Threads : call[u].pc = "idle"
    /\ ncalls < MaxCalls
    /\ call' = [call EXCEPT ![t] =
                  [Idle EXCEPT !.pc = "irr_enter", !.kind = "irr",
                               !.level = level, !.R = RADIUS,
                               !.g = [baseline_y |-> 0, cx |-> c[1], cy |-> c[2] * Q],
                               !.rng0 = rng]]
    /\ ncalls' = ncalls + 1
    /\ UNCHANGED <<rng, grid, results>>
    /\ Sched(t)

\* ------------------------------------------------------------ generate_single_droplet
\* np.random.seed(seed)
Seed(t) ==
    /\ At(t, "seed")
    /\ IF SeedOk(call[t].seed)
       THEN /\ rng' = SeedRng(rng, call[t].seed)
            /\ call' = [call EXCEPT ![t] =
                          NextStmt([@ EXCEPT !.log = Append(@, "seed")])]
       ELSE /\ call' = [call EXCEPT ![t].pc = "raised"]
            /\ UNCHANGED rng
    /\ UNCHANGED <<grid, results, ncalls>>
    /\ Sched(t)

\* theta, img, baseline_y, R, droplet_height, cx, cy
Geometry(t) ==
    /\ At(t, "geometry")
    /\ call' = [call EXCEPT ![t] =
                  NextStmt([@ EXCEPT !.img = BackgroundImage,
                                     !.R = RADIUS,
                                     !.g = ComputeGeometry(call[t].theta)])]
    /\ UNCHANGED <<rng, grid, results, ncalls>>
    /\ Sched(t)

\* dist = add_droplet_irregularities(XX, YY, cx, cy, R, level=0.4): the call
IrrCall(t) ==
    /\ At(t, "irr")
    /\ call' = [call EXCEPT ![t] =
                  [@ EXCEPT !.pc = "irr_enter", !.level = GenLevel,
                            !.n = 0, !.terms = <<>>]]
    /\ UNCHANGED <<rng, grid, results, ncalls>>
    /\ Sched(t)

\* mask, gradient, droplet, blend and contact line
Composite(t) ==
    /\ At(t, "composite")
    /\ call' = [call EXCEPT ![t] =
                  NextStmt([@ EXCEPT !.img =
                     CompositeImage(call[t].img, call[t].dist, grid.YY,
                                    call[t].g, call[t].R)])]
    /\ UNCHANGED <<rng, grid, results, ncalls>>
    /\ Sched(t)

\* img += np.random.normal(0, 6, img.shape)
Noise(t) ==
    /\ At(t, "noise")
    /\ call' = [call EXCEPT ![t] =
                  NextStmt([@ EXCEPT !.img = AddNoise(call[t].img, rng),
                                     !.log = Append(@, "noise")])]
    /\ rng' = Advance(rng, NormalDraws(call[t].img.shape))
    /\ UNCHANGED <<grid, results, ncalls>>
    /\ Sched(t)

\* img = cv2.GaussianBlur(img, (3, 3), 0); return np.clip(img, 0, 255).astype(np.uint8)
Finish(t) ==
    /\ At(t, "finish")
    /\ call' = [call EXCEPT ![t] =
                  [@ EXCEPT !.pc = "done", !.ret = FinishImage(call[t].img)]]
    /\ UNCHANGED <<rng, grid, results, ncalls>>
    /\ Sched(t)

\* ------------------------------------------------------------ add_droplet_irregularities
\* if level < 0.01: return np.sqrt((xx - cx) ** 2 + (yy - cy) ** 2)
IrrEnter(t) ==
    /\ call[t].pc = "irr_enter"
    /\ IF LowSeverity(call[t].level)
       THEN call' = [call EXCEPT ![t] =
                       [@ EXCEPT !.pc = "irr_ret",
                                 !.dist = EuclidField(grid.XX, grid.YY,
                                                      call[t].g.cx, call[t].g.cy)]]
       ELSE call' = [call EXCEPT ![t].pc = "irr_count"]
    /\ UNCHANGED <<rng, grid, results, ncalls>>
    /\ Sched(t)

\* for _ in range(np.random.randint(2, 6)):
IrrCount(t) ==
    /\ call[t].pc = "irr_count"
    /\ call' = [call EXCEPT ![t] =
                  [@ EXCEPT !.pc = "irr_freq", !.n = RandInt(rng, 2, 6),
                            !.terms = <<>>, !.log = Append(@, "count")]]
    /\ rng' = Advance(rng, 1)
    /\ UNCHANGED <<grid, results, ncalls>>
    /\ Sched(t)

\* freq = np.random.randint(3, 15)
IrrFreq(t) ==
    /\ call[t].pc = "irr_freq"
    /\ call' = [call EXCEPT ![t] =
                  [@ EXCEPT !.pc = "irr_amp", !.freq = RandInt(rng, 3, 15),
                            !.log = Append(@, "freq")]]
    /\ rng' = Advance(rng, 1)
    /\ UNCHANGED <<grid, results, ncalls>>
    /\ Sched(t)

\* amp = np.random.rand() * level * R * 0.02
IrrAmp(t) ==
    /\ call[t].pc = "irr_amp"
    /\ call' = [call EXCEPT ![t] =
                  [@ EXCEPT !.pc = "irr_phase",
                            !.amp = AmpOf(Rand(rng), call[t].level, call[t].R),
                            !.log = Append(@, "amp")]]
    /\ rng' = Advance(rng, 1)
    /\ UNCHANGED <<grid, results, ncalls>>
    /\ Sched(t)

\* phase = np.random.rand() * 2 * np.pi; distortion += amp * np.sin(...);
\* then the next iteration, or the end of the loop
IrrPhase(t) ==
    /\ call[t].pc = "irr_phase"
    /\ LET term  == [freq |-> call[t].freq, amp |-> call[t].amp,
                     phase |-> PhaseOf(Rand(rng))]
           terms == Append(call[t].terms, term)
       IN  call' = [call EXCEPT ![t] =
                      [@ EXCEPT !.pc = IF Len(terms) = call[t].n
                                       THEN "irr_dist" ELSE "irr_freq",
                                !.terms = terms,
                                !.log = Append(@, "phase")]]
    /\ rng' = Advance(rng, 1)
    /\ UNCHANGED <<grid, results, ncalls>>
    /\ Sched(t)

\* R_distorted = R + distortion; dist = sqrt(...); dist = dist / R_distorted * R
IrrDist(t) ==
    /\ call[t].pc = "irr_dist"
    /\ call' = [call EXCEPT ![t] =
                  [@ EXCEPT !.pc = "irr_ret",
                            !.dist = DistortedField(grid.XX, grid.YY,
                                                    call[t].g.cx, call[t].g.cy,
                                                    call[t].R, call[t].terms)]]
    /\ UNCHANGED <<rng, grid, results, ncalls>>
    /\ Sched(t)

\* return dist: to generate_single_droplet's next statement, or to the
\* direct caller
IrrRet(t) ==
    /\ call[t].pc = "irr_ret"
    /\ call' = [call EXCEPT ![t] =
                  IF call[t].kind = "gen"
                  THEN NextStmt([@ EXCEPT !.pc = "stmt"])
                  ELSE [@ EXCEPT !.pc = "done", !.ret = call[t].dist]]
    /\ UNCHANGED <<rng, grid, results, ncalls>>
    /\ Sched(t)

\* The caller takes the result (or the exception) and the frame is gone.
Return(t) ==
    /\ call[t].pc \in {"done", "raised"}
    /\ results' = IF call[t].kind = "gen" /\ call[t].pc = "done"
                  THEN results \cup {[theta |-> call[t].theta,
                                      seed |-> call[t].seed,
                                      image |-> call[t].ret]}
                  ELSE results
    /\ call' = [call EXCEPT ![t] = Idle]
    /\ UNCHANGED <<rng, grid, ncalls>>
    /\ Sched(t)

\* ------------------------------------------------------------ specifications
Step(t) ==
    \/ Seed(t)
    \/ Geometry(t)
    \/ IrrCall(t)
    \/ IrrEnter(t)
    \/ IrrCount(t)
    \/ IrrFreq(t)
    \/ IrrAmp(t)
    \/ IrrPhase(t)
    \/ IrrDist(t)
    \/ IrrRet(t)
    \/ Composite(t)
    \/ Noise(t)
    \/ Finish(t)
    \/ Return(t)

Next ==
    \/ \E t \in Threads, a \in Angles, s \in Seeds :
          CallGenerate(t, a, s) 
    \/ \E t \in Threads, c \in Centres, l \in Levels :
          CallIrregularities(t, c, l) 
    \/ \E t \in Threads : Step(t)

\* Calls one after the other: the CLI, one Streamlit session.
Spec == Init /\ [][Next]_vars

NextConc ==
    \/ \E t \in Threads, a \in ConcAngles, s \in Seeds :
          CallGenerateConc(t, a, s) 
    \/ \E t \in Threads : Step(t)

\* Calls on several threads of one process, their statements interleaved.
SpecConc == Init /\ [][NextConc]_vars

\* ------------------------------------------------------------ properties
\* The position of a statement in generate_single_droplet.
StmtIndex(stmt) == CHOOSE i \in 1..Len(GenFlow) : GenFlow[i] = stmt

\* Thread t runs generate_single_droplet and has executed statement stmt.
After(t, stmt) ==
    /\ call[t].kind = "gen"
    /\ call[t].pc # "raised"
    /\ call[t].ip > StmtIndex(stmt) \/ call[t].pc = "done"

\* Thread t's generate_single_droplet has composited the image and not yet
\* added the noise.
Composited(t) == call[t].kind = "gen" /\ At(t, "noise")

\* Thread t's generate_single_droplet has computed its return value.
Finished(t) == call[t].kind = "gen" /\ call[t].pc = "done"

\* Every image returned so far, or about to be, with the call's arguments.
Returned ==
    results \cup {[theta |-> call[t].theta, seed |-> call[t].seed,
                   image |-> call[t].ret] : t \in {u \in Threads : Finished(u)}}

\* The terms the loop of add_droplet_irregularities draws, from state r on.
RECURSIVE DrawTerms(_, _, _, _, _)
DrawTerms(r, n, level, R, terms) ==
    IF Len(terms) = n THEN [terms |-> terms, rng |-> r]
    ELSE LET r1 == Advance(r, 1)
             r2 == Advance(r1, 1)
             term == [freq |-> RandInt(r, 3, 15),
                      amp |-> AmpOf(Rand(r1), level, R),
                      phase |-> PhaseOf(Rand(r2))]
         IN  DrawTerms(Advance(r2, 1), n, level, R, Append(terms, term))

\* The image generate_single_droplet(theta_deg, seed) returns when no other
\* call runs between its statements.
RunAlone(theta_deg, seed) ==
    LET r0   == SeedRng([key |-> 0, pos |-> 0], seed)
        g    == ComputeGeometry(theta_deg)
        d    == DrawTerms(Advance(r0, 1), RandInt(r0, 2, 6), GenLevel, RADIUS, <<>>)
        dist == DistortedField(MeshGrid.XX, MeshGrid.YY, g.cx, g.cy, RADIUS, d.terms)
        img  == CompositeImage(BackgroundImage, dist, MeshGrid.YY, g, RADIUS)
    IN  FinishImage(AddNoise(img, d.rng))

\* C1: any two calls of generate_single_droplet with the same (angle, seed)
\* return the same image, whatever calls ran before or between them.
C1_Determinism ==
    \A r1, r2 \in Returned :
        (r1.theta = r2.theta /\ r1.seed = r2.seed) => r1.image = r2.image

\* A third call has finished with arguments an earlier call returned an image
\* for, and it started from a generator state another seed had left.
C1_Witness ==
    \E t \in Threads :
        /\ Finished(t)
        /\ ncalls = 3
        /\ call[t].rng0.key # call[t].seed
        /\ \E r \in results : r.theta = call[t].theta /\ r.seed = call[t].seed

\* C2: generate_single_droplet raises for no angle and no integer seed.
C2_Totality == \A t \in Threads : call[t].pc # "raised"

\* C3: a call whose statements interleave with those of calls that have
\* other seeds returns the image it returns when run alone.
C3_Independence ==
    \A t \in Threads :
        Finished(t) => call[t].ret = RunAlone(call[t].theta, call[t].seed)

\* C4 as stated: in the returned image every pixel below the baseline is 240,
\* except the contact-line band's, which are 0.
C4_BaselineReturned ==
    \A t \in Threads : Finished(t) =>
        \A p \in Core : p[1] > call[t].g.baseline_y =>
            call[t].ret.px[p] = IF p[1] <= call[t].g.baseline_y + 1 THEN 0 ELSE 240

\* C4 amended: in the image as composited, before the noise is added, every
\* pixel below the baseline is exactly 240, except the contact-line band's,
\* which are 0.
C4_BaselineComposited ==
    \A t \in Threads : Composited(t) =>
        \A p \in Window : p[1] > call[t].g.baseline_y =>
            call[t].img.px[p] =
                IF p[1] <= call[t].g.baseline_y + 1 THEN 0 ELSE 240 * 1000

\* A composited image with a pixel below the band that lies inside the
\* (perturbed) circle, which the baseline clipping kept at the background.
C4_Witness ==
    \E t \in Threads : \E p \in Window :
        /\ Composited(t)
        /\ p[1] > call[t].g.baseline_y + 1
        /\ call[t].dist.px[p] < (RADIUS - 2) * Q
        /\ call[t].img.px[p] = 240 * 1000

\* C5 as stated: in the returned image every pixel of rows
\* baseline_y - 2 .. baseline_y + 1 is exactly 0.
C5_BandReturned ==
    \A t \in Threads : Finished(t) =>
        \A p \in Core :
            (p[1] >= call[t].g.baseline_y - 2 /\ p[1] <= call[t].g.baseline_y + 1)
                => call[t].ret.px[p] = 0

\* C5 amended: in the image as composited, before the noise is added, every
\* pixel of rows baseline_y - 2 .. baseline_y + 1 is exactly 0.
C5_BandComposited ==
    \A t \in Threads : Composited(t) =>
        \A p \in Window :
            (p[1] >= call[t].g.baseline_y - 2 /\ p[1] <= call[t].g.baseline_y + 1)
                => call[t].img.px[p] = 0

\* A composited image with, in every row of the band, a pixel outside the
\* circle (mask 0, blended to the background) that is 0.
C5_Witness ==
    \E t \in Threads :
        /\ Composited(t)
        /\ \A y \in (call[t].g.baseline_y - 2)..(call[t].g.baseline_y + 1) :
              \E p \in Window :
                  /\ p[1] = y
                  /\ call[t].dist.px[p] > (RADIUS + 2) * Q
                  /\ call[t].img.px[p] = 0

\* C6: every image returned has 900 rows and 800 columns, one channel, and
\* integer samples in 0..255.
C6_ShapeFormat ==
    \A r \in Returned :
        /\ r.image.shape = <<900, 800>>
        /\ r.image.shape = <<IMG_H, IMG_W>>
        /\ r.image.dtype = "uint8"
        /\ \A p \in DOMAIN r.image.px :
              /\ p[1] \in 0..(r.image.shape[1] - 1)
              /\ p[2] \in 0..(r.image.shape[2] - 1)
              /\ r.image.px[p] \in 0..255

\* A returned image with a sample the clipping raised to 0 and a sample
\* above 0.
C6_Witness ==
    \E t \in Threads :
        /\ Finished(t)
        /\ \E p \in Core : BlurAt(call[t].img, p) < 0 /\ call[t].ret.px[p] = 0
        /\ \E p \in Core : call[t].ret.px[p] > 200

\* C7: with angle 90 and seed 42 the geometry is baseline_y = 675, cx = 400,
\* cy = 675.
C7_ScenarioA ==
    \A t \in Threads :
        (After(t, "geometry") /\ call[t].theta = 90 /\ call[t].seed = 42) =>
            /\ call[t].g.baseline_y = 675
            /\ call[t].g.cx = 400
            /\ call[t].g.cy = 675 * Q
            /\ call[t].R = 240

\* A call with angle 90 and seed 42 has computed its geometry.
C7_Witness ==
    \E t \in Threads :
        After(t, "geometry") /\ call[t].theta = 90 /\ call[t].seed = 42

\* The draws a call has made so far are: the seeding, the term count, then
\* frequency, amplitude and phase in turn, and last, after 2 to 5 whole
\* terms, the noise.
DrawOrder(log) ==
    /\ log # <<>> => log[1] = "seed"
    /\ \A i \in 2..Len(log) :
          IF log[i] = "noise"
          THEN /\ i = Len(log)
               /\ (i - 3) % 3 = 0
               /\ (i - 3) \div 3 \in 2..5
          ELSE log[i] = IF i = 2 THEN "count"
                        ELSE <<"freq", "amp", "phase">>[((i - 3) % 3) + 1]

\* C8: within one call the stream is seeded from the seed argument first,
\* then come all the perturbation draws, and only after the last of them the
\* noise draws.
C8_DrawOrder ==
    \A t \in Threads : call[t].kind = "gen" =>
        /\ DrawOrder(call[t].log)
        /\ call[t].log # <<>> => rng.key = call[t].seed
        /\ Finished(t) => call[t].log[Len(call[t].log)] = "noise"

\* A finished call that drew five terms and then the noise.
C8_Witness ==
    \E t \in Threads :
        /\ Finished(t)
        /\ Len(call[t].log) = 18
        /\ call[t].log[17] = "phase"
        /\ call[t].log[18] = "noise"

\* C9: add_droplet_irregularities with level < 0.01 returns the Euclidean
\* distance of every pixel from (cx, cy) and leaves the generator as it was.
C9_LowSeverityNoOp ==
    \A t \in Threads :
        (call[t].kind = "irr" /\ call[t].pc = "done" /\ call[t].level < 10) =>
            /\ rng = call[t].rng0
            /\ call[t].log = <<>>
            /\ DOMAIN call[t].ret.px = Window
            /\ \A p \in Window :
                  LET dx == p[2] * Q - call[t].g.cx * Q
                      dy == p[1] * Q - call[t].g.cy
                      d  == call[t].ret.px[p]
                  IN  d >= 0 /\ d * d <= dx * dx + dy * dy
                             /\ dx * dx + dy * dy < (d + 1) * (d + 1)

\* A direct call with a positive severity below the threshold has returned.
C9_Witness ==
    \E t \in Threads :
        call[t].kind = "irr" /\ call[t].pc = "done" /\ call[t].level = 9

\* C10: a generation call leaves XX and YY as they were and writes no other
\* process-wide state, the random generator's included.
C10_NoCrossCallState ==
    /\ grid = MeshGrid
    /\ \A t \in Threads : Finished(t) => rng = call[t].rng0

====
